---- MODULE Spec2Model ----
(***************************************************************************)
(* Model of the clustering core of src/ai_news_scraper.py:                 *)
(* extract_entities, normalize_item, cluster_by_topic, detect_threads and  *)
(* generate_html up to the clustering of the normalized items.             *)
(*                                                                         *)
(* All are pure functions.  Each specification draws the arguments of a    *)
(* call from bounded sets in its initial predicate and has one action per  *)
(* call of the function.  A call either returns a value or raises.         *)
(*                                                                         *)
(* Items and posts are identified by their position in the input list.     *)
(* Instants are integers counting half minutes, so 10.5 minutes is 21.     *)
(* Texts are sequences of characters; labels, urls and names are strings.  *)
(***************************************************************************)
EXTENDS Integers, Sequences, FiniteSets, TLC

VARIABLES
    items,                  \* cluster_by_topic: argument items
    min_cluster_size,       \* cluster_by_topic: argument min_cluster_size
    clusters,               \* outcome of the call cluster_by_topic(items, min_cluster_size)
    again,                  \* outcome of a second call with the same arguments
    permuted,               \* outcome of a call with the items reordered
    posts,                  \* detect_threads: argument posts
    time_threshold_minutes, \* detect_threads: argument time_threshold_minutes
    threads,                \* outcome of the call detect_threads(posts, time_threshold_minutes)
    text,                   \* extract_entities: argument text
    found,                  \* outcome of the call extract_entities(text)
    item,                   \* normalize_item: argument item
    item_type,              \* normalize_item: argument item_type
    normalized,             \* outcome of the call normalize_item(item, item_type)
    techmeme_articles,      \* generate_html: argument techmeme_articles
    techcrunch_articles,    \* generate_html: argument techcrunch_articles
    x_posts,                \* generate_html: argument x_posts
    page                    \* outcome of the call generate_html(...), up to the clustering

vars == <<items, min_cluster_size, clusters, again, permuted,
          posts, time_threshold_minutes, threads,
          text, found, item, item_type, normalized,
          techmeme_articles, techcrunch_articles, x_posts, page>>

clusterVars   == <<items, min_cluster_size, clusters, again, permuted>>
threadVars    == <<posts, time_threshold_minutes, threads>>
extractVars   == <<text, found>>
normalizeVars == <<item, item_type, normalized>>
pageVars      == <<techmeme_articles, techcrunch_articles, x_posts, page>>

(***************************************************************************)
(* Bounds of the model.                                                    *)
(***************************************************************************)
MaxItems == 4              \* longest items list passed to cluster_by_topic
MaxEntitiesPerItem == 2    \* largest entity set of one item
MaxMinClusterSize == 2     \* min_cluster_size ranges over 0..MaxMinClusterSize
MaxPermutedItems == 3      \* longest items list that is also called reordered
MaxPosts == 4              \* longest posts list passed to detect_threads
MaxWords == 3              \* most words of a text passed to extract_entities
MaxExcess == 2             \* the longest text is MaxExcess characters over the title limit
MaxThreadPosts == 2        \* most posts of a thread passed to normalize_item
MaxPageArticles == 1       \* longest articles list passed to generate_html
MaxPagePosts == 2          \* longest x_posts list passed to generate_html
MaxTopicItems == 8         \* longest items list of the few kinds of TopicItemPool

(***************************************************************************)
(* Constants of the program.                                               *)
(***************************************************************************)
\* datetime.min.replace(tzinfo=timezone.utc): the origin of the instants.
SentinelInstant == 0

\* The default of time_threshold_minutes.
DefaultThresholdMinutes == 10

\* The number of characters of a post's text that its title keeps.
TitleLimit == 100

(***************************************************************************)
(* Generic helpers.                                                        *)
(***************************************************************************)
Range(s) == {s[i] : i \in DOMAIN s}

SeqsUpTo(S, n) == UNION {[1..k -> S] : k \in 0..n}

\* All orders in which the elements of the finite set S can be listed.
Perms(S) ==
    {f \in [1..Cardinality(S) -> S] : \A x \in S : \E i \in DOMAIN f : f[i] = x}

\* Python's list.sort / sorted: a stable sort.  before[i][j] is
\* "key(s[i]) < key(s[j])".  The element at input position i lands after every
\* element whose key is smaller and after every earlier element whose key is
\* equal.
StableSort(s, before) ==
    LET pos(i) == 1 + Cardinality({j \in DOMAIN s : before[j][i]})
                    + Cardinality({j \in DOMAIN s : /\ j < i
                                                    /\ ~before[j][i]
                                                    /\ ~before[i][j]})
    IN  [p \in DOMAIN s |-> s[CHOOSE i \in DOMAIN s : pos(i) = p]]

\* The value a variable holds before the call it records has been made.
NotCalled == [called |-> FALSE]

\* The variables of a function that the specification at hand does not call.
IdleCluster ==
    /\ items = <<>>
    /\ min_cluster_size = 2
    /\ clusters = NotCalled
    /\ again = NotCalled
    /\ permuted = NotCalled

IdleThreads ==
    /\ posts = <<>>
    /\ time_threshold_minutes = DefaultThresholdMinutes
    /\ threads = NotCalled

IdleExtract ==
    /\ text = <<>>
    /\ found = NotCalled

IdleNormalize ==
    /\ item = <<>>
    /\ item_type = "article"
    /\ normalized = NotCalled

IdlePage ==
    /\ techmeme_articles = <<>>
    /\ techcrunch_articles = <<>>
    /\ x_posts = <<>>
    /\ page = NotCalled

(***************************************************************************)
(* Entities and topic labels.                                              *)
(***************************************************************************)
\* Canonical labels, values of KNOWN_ENTITIES.
Entities == {"OpenAI", "Anthropic", "AI Safety"}

\* The labels the topic choice passes over.
GenericTopics ==
    {"Funding & Investment", "AI Safety", "AI Agents", "Model Training", "AI Reasoning"}

\* Python's None as a topic.
NoTopic == "None"

\* Unicode code points of the strings that the final sort compares.
CodePoints(str) ==
    CASE str = "OpenAI"    -> <<79, 112, 101, 110, 65, 73>>
      [] str = "Anthropic" -> <<65, 110, 116, 104, 114, 111, 112, 105, 99>>
      [] str = "AI Safety" -> <<65, 73, 32, 83, 97, 102, 101, 116, 121>>
      [] str = "zzz"       -> <<122, 122, 122>>
      [] str = "xAI"       -> <<120, 65, 73>>
      [] str = "zzzz"      -> <<122, 122, 122, 122>>
      [] str = ""          -> <<>>

\* Python's str.__lt__: lexicographic by code point, a proper prefix is smaller.
StrLess(a, b) ==
    LET x == CodePoints(a)
        y == CodePoints(b)
    IN  \E k \in 1..(Len(y)) :
            /\ \A j \in 1..(k - 1) : j <= Len(x) /\ x[j] = y[j]
            /\ \/ k = Len(x) + 1
               \/ k <= Len(x) /\ x[k] < y[k]

(***************************************************************************)
(* cluster_by_topic                                                        *)
(***************************************************************************)
ItemEntitySets == {S \in SUBSET Entities : Cardinality(S) <= MaxEntitiesPerItem}

\* A normalized item, reduced to the one field cluster_by_topic reads.  The
\* last item has no 'entities' key.
ItemPool ==
    {[type |-> "article", entities |-> S] : S \in ItemEntitySets}
        \cup {[type |-> "article"]}

\* item.get('entities', set())
GetEntities(it) ==
    IF "entities" \in DOMAIN it THEN it.entities ELSE {}

\* The keys of entity_to_items in insertion order.  The outer loop inserts by
\* item position; the entities that one item introduces are inserted in the
\* order in which Python enumerates that item's set, which the language does
\* not fix.  KeyOrders is the set of insertion orders that can result.
KeyOrders(its) ==
    LET all == UNION {GetEntities(its[i]) : i \in DOMAIN its}
        first(e) == CHOOSE i \in DOMAIN its :
                        /\ e \in GetEntities(its[i])
                        /\ \A j \in 1..(i - 1) : e \notin GetEntities(its[j])
    IN  {k \in Perms(all) :
            \A i, j \in DOMAIN k : i < j => first(k[i]) <= first(k[j])}

\* Variant: every item is listed under every entity.
EntityToItemsAll(its, keys) ==
    [k \in DOMAIN keys |->
        [entity       |-> keys[k],
         item_indices |-> [i \in DOMAIN its |-> i]]]

\* entity_to_items as the list of its (key, value) pairs: each value lists the
\* positions of the items holding the entity, ascending.
EntityToItems(its, keys) ==
    [k \in DOMAIN keys |->
        [entity       |-> keys[k],
         item_indices |-> SelectSeq([i \in DOMAIN its |-> i],
                                    LAMBDA i : keys[k] \in GetEntities(its[i]))]]

\* Variant: the entities are left in insertion order.
SortedEntitiesUnsorted(its, keys) == EntityToItems(its, keys)

\* Variant: only the most shared entity is processed.
SortedEntitiesOnlyFirst(its, keys) ==
    LET e == EntityToItems(its, keys)
        sorted == StableSort(e, [i \in DOMAIN e |-> [j \in DOMAIN e |->
                        Len(e[i].item_indices) > Len(e[j].item_indices)]])
    IN  IF sorted = <<>> THEN <<>> ELSE <<sorted[1]>>

\* Variant: the least shared entity comes first.
SortedEntitiesLeastShared(its, keys) ==
    LET e == EntityToItems(its, keys)
    IN  StableSort(e, [i \in DOMAIN e |-> [j \in DOMAIN e |->
                        Len(e[i].item_indices) < Len(e[j].item_indices)]])

\* sorted(entity_to_items.items(), key=lambda x: len(x[1]), reverse=True)
SortedEntities(its, keys) ==
    LET e == EntityToItems(its, keys)
    IN  StableSort(e, [i \in DOMAIN e |-> [j \in DOMAIN e |->
                        Len(e[i].item_indices) > Len(e[j].item_indices)]])

\* The sets with two or more non-generic labels: the only ones whose
\* enumeration order can change the topic.
MultiSpecificSets ==
    {S \in ItemEntitySets : Cardinality(S \ GenericTopics) >= 2}

RECURSIVE EnumerationsOver(_)
EnumerationsOver(sets) ==
    IF sets = {} THEN {<<>>}
    ELSE LET S == CHOOSE T \in sets : TRUE
         IN  {(S :> p) @@ r : p \in Perms(S), r \in EnumerationsOver(sets \ {S})}

\* One enumeration order for each set of MultiSpecificSets.
SharedEnumerations == EnumerationsOver(MultiSpecificSets)

\* for e in shared_entities: the order in which the set is enumerated.
Enumerate(S, enum) ==
    IF S \in DOMAIN enum THEN enum[S] ELSE CHOOSE p \in Perms(S) : TRUE

\* Variant: the topic is always the entity the cluster was formed from.
ChooseTopicSeed(entity, shared, enum) == entity

\* topic = entity; for e in shared_entities: if e is not generic: topic = e; break
ChooseTopic(entity, shared, enum) ==
    LET order == Enumerate(shared, enum)
        specific == {i \in DOMAIN order : order[i] \notin GenericTopics}
    IN  IF specific = {} THEN entity
        ELSE order[CHOOSE i \in specific : \A j \in specific : i <= j]

\* available_indices = [i for i in item_indices if i not in used_items]
AvailableIndices(item_indices, used_items) ==
    SelectSeq(item_indices, LAMBDA i : i \notin used_items)

\* Variant: the union of the members' entity sets instead of the intersection.
SharedEntitiesUnion(its, available, entity) ==
    UNION {GetEntities(its[available[k]]) : k \in DOMAIN available} \cup {entity}

\* Variant: the shared entities are always the one entity of the fallback.
SharedEntitiesFallback(its, available, entity) == {entity}

\* set.intersection(*[item.get('entities', set()) for item in cluster_items])
\* followed by the fallback to {entity}.
SharedEntities(its, available, entity) ==
    LET held == UNION {GetEntities(its[available[k]]) : k \in DOMAIN available}
        inter == {e \in held : \A k \in DOMAIN available :
                                    e \in GetEntities(its[available[k]])}
    IN  IF inter = {} THEN {entity} ELSE inter

\* Variant: the members of a new cluster are not marked as used.
MarkUsedForgotten(used_items, available) == used_items

\* for i in available_indices: used_items.add(i)
MarkUsed(used_items, available) == used_items \cup Range(available)

\* Variant: an entity one item short of min_cluster_size is not skipped.
TooFewLenient(available, mcs) == Len(available) < mcs - 1

\* Variant: an entity with exactly min_cluster_size available items is skipped too.
TooFewInclusive(available, mcs) == Len(available) <= mcs

\* Variant: only an entity without available items is skipped.
TooFewOnlyEmpty(available, mcs) == available = <<>>

\* len(available_indices) < min_cluster_size
TooFew(available, mcs) == Len(available) < mcs

\* One iteration of the loop over sorted_entities.  st holds used_items, the
\* clusters list and whether the call has raised.
ClusterStep(its, mcs, entry, enum, st) ==
    LET available == AvailableIndices(entry.item_indices, st.used_items)
    IN  IF TooFew(available, mcs) THEN st
        ELSE IF available = <<>>
            \* set.intersection() without arguments: TypeError
            THEN [st EXCEPT !.raised = TRUE]
        ELSE LET shared == SharedEntities(its, available, entry.entity)
             IN  [used_items |-> MarkUsed(st.used_items, available),
                  clusters   |-> Append(st.clusters,
                                    [topic    |-> ChooseTopic(entry.entity, shared, enum),
                                     entities |-> shared,
                                     items    |-> available]),
                  raised     |-> FALSE]

RECURSIVE ClusterLoop(_, _, _, _, _, _)
ClusterLoop(its, mcs, sorted, enum, k, st) ==
    IF k > Len(sorted) \/ st.raised THEN st
    ELSE ClusterLoop(its, mcs, sorted, enum, k + 1,
                     ClusterStep(its, mcs, sorted[k], enum, st))

\* Variant: an unclustered item's cluster carries no entities.
UnclusteredWithoutEntities(its, used_items) ==
    LET rest == SelectSeq([i \in DOMAIN its |-> i], LAMBDA i : i \notin used_items)
    IN  [k \in DOMAIN rest |->
            [topic    |-> NoTopic,
             entities |-> {},
             items    |-> <<rest[k]>>]]

\* Variant: the unclustered items are appended last item first.
UnclusteredReversed(its, used_items) ==
    LET rest == SelectSeq([i \in DOMAIN its |-> i], LAMBDA i : i \notin used_items)
    IN  [k \in DOMAIN rest |->
            [topic    |-> NoTopic,
             entities |-> GetEntities(its[rest[Len(rest) + 1 - k]]),
             items    |-> <<rest[Len(rest) + 1 - k]>>]]

\* The items never marked used, each as a cluster of its own, in input order.
Unclustered(its, used_items) ==
    LET rest == SelectSeq([i \in DOMAIN its |-> i], LAMBDA i : i \notin used_items)
    IN  [k \in DOMAIN rest |->
            [topic    |-> NoTopic,
             entities |-> GetEntities(its[rest[k]]),
             items    |-> <<rest[k]>>]]

\* c['topic'] or 'zzz'
TopicKey(c) == IF c.topic = NoTopic \/ c.topic = "" THEN "zzz" ELSE c.topic

\* Variant: the size is not negated, so smaller clusters sort first.
ClusterKeyLessAscending(c, d) ==
    \/ Len(c.items) < Len(d.items)
    \/ /\ Len(c.items) = Len(d.items)
       /\ StrLess(TopicKey(c), TopicKey(d))

\* (-len(c['items']), c['topic'] or 'zzz') < (same of d), as Python compares tuples
ClusterKeyLess(c, d) ==
    \/ -Len(c.items) < -Len(d.items)
    \/ /\ Len(c.items) = Len(d.items)
       /\ StrLess(TopicKey(c), TopicKey(d))

\* clusters.sort(key=lambda c: (-len(c['items']), c['topic'] or 'zzz'))
SortClusters(cs) ==
    StableSort(cs, [i \in DOMAIN cs |-> [j \in DOMAIN cs |-> ClusterKeyLess(cs[i], cs[j])]])

\* cluster_by_topic(items, min_cluster_size) when entity_to_items gets its keys
\* in the order keys and the shared sets are enumerated as enum says.
ClusterByTopic(its, mcs, keys, enum) ==
    IF its = <<>> THEN [called |-> TRUE, raised |-> FALSE, clusters |-> <<>>]
    ELSE LET st == ClusterLoop(its, mcs, SortedEntities(its, keys), enum, 1,
                               [used_items |-> {}, clusters |-> <<>>, raised |-> FALSE])
         IN  IF st.raised
             THEN [called |-> TRUE, raised |-> TRUE, clusters |-> <<>>]
             ELSE [called |-> TRUE, raised |-> FALSE,
                   clusters |-> SortClusters(st.clusters \o Unclustered(its, st.used_items))]

\* The items list reordered: position k of the new list holds items[p[k]].
Reorder(its, p) == [k \in DOMAIN its |-> its[p[k]]]

\* An outcome on a reordered list, with the members of each cluster named by
\* their positions in the original list.
RenameItems(out, p) ==
    [out EXCEPT !.clusters =
        [c \in DOMAIN out.clusters |->
            [out.clusters[c] EXCEPT !.items =
                [k \in DOMAIN out.clusters[c].items |-> p[out.clusters[c].items[k]]]]]]

(***************************************************************************)
(* The specification of cluster_by_topic.                                  *)
(***************************************************************************)
InitCluster ==
    /\ items \in SeqsUpTo(ItemPool, MaxItems)
    /\ min_cluster_size \in 0..MaxMinClusterSize
    /\ clusters = NotCalled
    /\ again = NotCalled
    /\ permuted = NotCalled
    /\ posts = <<>>
    /\ time_threshold_minutes = DefaultThresholdMinutes
    /\ threads = NotCalled
    /\ IdleExtract
    /\ IdleNormalize
    /\ IdlePage

\* clusters = cluster_by_topic(items, min_cluster_size)
Cluster ==
    /\ ~clusters.called
    /\ \E keys \in KeyOrders(items), enum \in SharedEnumerations :
            clusters' = ClusterByTopic(items, min_cluster_size, keys, enum)
    /\ UNCHANGED <<items, min_cluster_size, again, permuted>>
    /\ UNCHANGED <<threadVars, extractVars, normalizeVars, pageVars>>

\* A second call with the same arguments.
ClusterAgain ==
    /\ clusters.called
    /\ ~again.called
    /\ ~permuted.called
    /\ \E keys \in KeyOrders(items), enum \in SharedEnumerations :
            again' = ClusterByTopic(items, min_cluster_size, keys, enum)
    /\ UNCHANGED <<items, min_cluster_size, clusters, permuted>>
    /\ UNCHANGED <<threadVars, extractVars, normalizeVars, pageVars>>

\* A call with the same items in another order.
ClusterPermuted ==
    /\ clusters.called
    /\ ~again.called
    /\ ~permuted.called
    /\ Len(items) <= MaxPermutedItems
    /\ \E p \in Perms(DOMAIN items) :
        \E keys \in KeyOrders(Reorder(items, p)), enum \in SharedEnumerations :
            permuted' = RenameItems(
                ClusterByTopic(Reorder(items, p), min_cluster_size, keys, enum), p)
    /\ UNCHANGED <<items, min_cluster_size, clusters, again>>
    /\ UNCHANGED <<threadVars, extractVars, normalizeVars, pageVars>>

NextCluster == Cluster \/ ClusterAgain \/ ClusterPermuted

SpecCluster == InitCluster /\ [][NextCluster]_vars

(***************************************************************************)
(* cluster_by_topic on items with one label each, for the final sort.  The *)
(* function takes whatever strings the entity sets hold: labels below and  *)
(* above the placeholder 'zzz' of the sort key, and the empty string.      *)
(***************************************************************************)
LabelPool == {"Anthropic", "OpenAI", "xAI", "zzzz", ""}

LabelItemPool ==
    {[type |-> "article", entities |-> {l}] : l \in LabelPool}
        \cup {[type |-> "article", entities |-> {}]}

InitLabels ==
    /\ items \in SeqsUpTo(LabelItemPool, MaxItems)
    /\ min_cluster_size \in 0..MaxMinClusterSize
    /\ clusters = NotCalled
    /\ again = NotCalled
    /\ permuted = NotCalled
    /\ posts = <<>>
    /\ time_threshold_minutes = DefaultThresholdMinutes
    /\ threads = NotCalled
    /\ IdleExtract
    /\ IdleNormalize
    /\ IdlePage

NextLabels == Cluster

SpecLabels == InitLabels /\ [][NextLabels]_vars

(***************************************************************************)
(* cluster_by_topic on longer lists of few kinds of items, for the topics  *)
(* of clusters formed one after the other: a generic label shared with a   *)
(* specific one, and each of the two shared with nothing or with a third.  *)
(***************************************************************************)
TopicItemPool ==
    {[type |-> "article", entities |-> S] :
        S \in {{"Anthropic"}, {"Anthropic", "AI Safety"},
               {"AI Safety", "OpenAI"}, {"OpenAI"}}}

InitTopics ==
    /\ items \in SeqsUpTo(TopicItemPool, MaxTopicItems)
    /\ min_cluster_size \in 1..MaxMinClusterSize
    /\ clusters = NotCalled
    /\ again = NotCalled
    /\ permuted = NotCalled
    /\ posts = <<>>
    /\ time_threshold_minutes = DefaultThresholdMinutes
    /\ threads = NotCalled
    /\ IdleExtract
    /\ IdleNormalize
    /\ IdlePage

NextTopics == Cluster

SpecTopics == InitTopics /\ [][NextTopics]_vars

(***************************************************************************)
(* extract_entities                                                        *)
(*                                                                         *)
(* A text is a sequence of one-character strings.  Entities are strings.   *)
(***************************************************************************)
UpperCase ==
    <<"A", "B", "C", "D", "E", "F", "G", "H", "I", "J", "K", "L", "M",
      "N", "O", "P", "Q", "R", "S", "T", "U", "V", "W", "X", "Y", "Z">>

LowerCase ==
    <<"a", "b", "c", "d", "e", "f", "g", "h", "i", "j", "k", "l", "m",
      "n", "o", "p", "q", "r", "s", "t", "u", "v", "w", "x", "y", "z">>

Digits == {"0", "1", "2", "3", "4", "5", "6", "7", "8", "9"}

\* [A-Z] and [a-z] of the proper-noun pattern
IsUpper(ch) == ch \in Range(UpperCase)
IsLower(ch) == ch \in Range(LowerCase)

\* \w of Python's re on the characters the texts are written in
IsWord(ch) == IsUpper(ch) \/ IsLower(ch) \/ ch \in Digits \/ ch = "_"

\* \s
IsSpace(ch) == ch \in {" ", "\t", "\n", "\r"}

\* str.lower() on one character
LowerChar(ch) ==
    IF IsUpper(ch) THEN LowerCase[CHOOSE k \in DOMAIN UpperCase : UpperCase[k] = ch]
    ELSE ch

\* text.lower()
Lower(t) == [i \in DOMAIN t |-> LowerChar(t[i])]

\* The string written by a sequence of characters.
RECURSIVE Join(_)
Join(t) == IF t = <<>> THEN "" ELSE Head(t) \o Join(Tail(t))

\* The string pattern stands in t at position i.
MatchesAt(t, i, pattern) ==
    /\ i >= 1
    /\ i + Len(pattern) - 1 <= Len(t)
    /\ Join(SubSeq(t, i, i + Len(pattern) - 1)) = pattern

\* \b holds in front of position i: exactly one of the characters at i - 1 and
\* at i is a word character (outside the text there is none).
WordAt(t, i) == i \in DOMAIN t /\ IsWord(t[i])
Boundary(t, i) == WordAt(t, i - 1) # WordAt(t, i)

\* re.search(r'\b' + re.escape(pattern) + r'\b', text_lower)
SearchWord(t, pattern) ==
    \E i \in DOMAIN t :
        /\ MatchesAt(t, i, pattern)
        /\ Boundary(t, i)
        /\ Boundary(t, i + Len(pattern))

\* pattern in text_lower
Contains(t, pattern) ==
    \E i \in DOMAIN t : MatchesAt(t, i, pattern)

\* The dictionary: surface form and canonical label.
KNOWN_ENTITIES ==
    {[pattern |-> "openai", canonical_name |-> "OpenAI"],
     [pattern |-> "anthropic", canonical_name |-> "Anthropic"],
     [pattern |-> "google", canonical_name |-> "Google"],
     [pattern |-> "deepmind", canonical_name |-> "DeepMind"],
     [pattern |-> "meta", canonical_name |-> "Meta"],
     [pattern |-> "microsoft", canonical_name |-> "Microsoft"],
     [pattern |-> "nvidia", canonical_name |-> "NVIDIA"],
     [pattern |-> "apple", canonical_name |-> "Apple"],
     [pattern |-> "amazon", canonical_name |-> "Amazon"],
     [pattern |-> "aws", canonical_name |-> "AWS"],
     [pattern |-> "hugging face", canonical_name |-> "Hugging Face"],
     [pattern |-> "huggingface", canonical_name |-> "Hugging Face"],
     [pattern |-> "stability ai", canonical_name |-> "Stability AI"],
     [pattern |-> "cohere", canonical_name |-> "Cohere"],
     [pattern |-> "mistral", canonical_name |-> "Mistral"],
     [pattern |-> "inflection", canonical_name |-> "Inflection"],
     [pattern |-> "character ai", canonical_name |-> "Character AI"],
     [pattern |-> "elevenlabs", canonical_name |-> "ElevenLabs"],
     [pattern |-> "eleven labs", canonical_name |-> "ElevenLabs"],
     [pattern |-> "runway", canonical_name |-> "Runway"],
     [pattern |-> "midjourney", canonical_name |-> "Midjourney"],
     [pattern |-> "adobe", canonical_name |-> "Adobe"],
     [pattern |-> "salesforce", canonical_name |-> "Salesforce"],
     [pattern |-> "ibm", canonical_name |-> "IBM"],
     [pattern |-> "intel", canonical_name |-> "Intel"],
     [pattern |-> "amd", canonical_name |-> "AMD"],
     [pattern |-> "tesla", canonical_name |-> "Tesla"],
     [pattern |-> "xai", canonical_name |-> "xAI"],
     [pattern |-> "perplexity", canonical_name |-> "Perplexity"],
     [pattern |-> "gpt-4", canonical_name |-> "GPT-4"],
     [pattern |-> "gpt-5", canonical_name |-> "GPT-5"],
     [pattern |-> "gpt4", canonical_name |-> "GPT-4"],
     [pattern |-> "gpt5", canonical_name |-> "GPT-5"],
     [pattern |-> "chatgpt", canonical_name |-> "ChatGPT"],
     [pattern |-> "claude", canonical_name |-> "Claude"],
     [pattern |-> "gemini", canonical_name |-> "Gemini"],
     [pattern |-> "llama", canonical_name |-> "Llama"],
     [pattern |-> "copilot", canonical_name |-> "Copilot"],
     [pattern |-> "dall-e", canonical_name |-> "DALL-E"],
     [pattern |-> "dalle", canonical_name |-> "DALL-E"],
     [pattern |-> "sora", canonical_name |-> "Sora"],
     [pattern |-> "stable diffusion", canonical_name |-> "Stable Diffusion"],
     [pattern |-> "flux", canonical_name |-> "Flux"],
     [pattern |-> "whisper", canonical_name |-> "Whisper"],
     [pattern |-> "codex", canonical_name |-> "Codex"],
     [pattern |-> "claude code", canonical_name |-> "Claude Code"],
     [pattern |-> "cursor", canonical_name |-> "Cursor"],
     [pattern |-> "replit", canonical_name |-> "Replit"],
     [pattern |-> "github copilot", canonical_name |-> "GitHub Copilot"],
     [pattern |-> "xcode", canonical_name |-> "Xcode"],
     [pattern |-> "sam altman", canonical_name |-> "Sam Altman"],
     [pattern |-> "dario amodei", canonical_name |-> "Dario Amodei"],
     [pattern |-> "demis hassabis", canonical_name |-> "Demis Hassabis"],
     [pattern |-> "yann lecun", canonical_name |-> "Yann LeCun"],
     [pattern |-> "andrej karpathy", canonical_name |-> "Andrej Karpathy"],
     [pattern |-> "karpathy", canonical_name |-> "Andrej Karpathy"],
     [pattern |-> "ilya sutskever", canonical_name |-> "Ilya Sutskever"],
     [pattern |-> "elon musk", canonical_name |-> "Elon Musk"],
     [pattern |-> "sundar pichai", canonical_name |-> "Sundar Pichai"],
     [pattern |-> "satya nadella", canonical_name |-> "Satya Nadella"],
     [pattern |-> "jensen huang", canonical_name |-> "Jensen Huang"],
     [pattern |-> "mark zuckerberg", canonical_name |-> "Mark Zuckerberg"],
     [pattern |-> "funding", canonical_name |-> "Funding & Investment"],
     [pattern |-> "investment", canonical_name |-> "Funding & Investment"],
     [pattern |-> "raises", canonical_name |-> "Funding & Investment"],
     [pattern |-> "valuation", canonical_name |-> "Funding & Investment"],
     [pattern |-> "series a", canonical_name |-> "Funding & Investment"],
     [pattern |-> "series b", canonical_name |-> "Funding & Investment"],
     [pattern |-> "series c", canonical_name |-> "Funding & Investment"],
     [pattern |-> "ipo", canonical_name |-> "IPO"],
     [pattern |-> "regulation", canonical_name |-> "AI Regulation"],
     [pattern |-> "safety", canonical_name |-> "AI Safety"],
     [pattern |-> "alignment", canonical_name |-> "AI Alignment"],
     [pattern |-> "misalignment", canonical_name |-> "AI Alignment"],
     [pattern |-> "ethics", canonical_name |-> "AI Ethics"],
     [pattern |-> "bias", canonical_name |-> "AI Ethics"],
     [pattern |-> "autonomous", canonical_name |-> "Autonomous Systems"],
     [pattern |-> "robotics", canonical_name |-> "Robotics"],
     [pattern |-> "self-driving", canonical_name |-> "Autonomous Vehicles"],
     [pattern |-> "autonomous vehicle", canonical_name |-> "Autonomous Vehicles"],
     [pattern |-> "healthcare", canonical_name |-> "AI in Healthcare"],
     [pattern |-> "medical", canonical_name |-> "AI in Healthcare"],
     [pattern |-> "drug discovery", canonical_name |-> "AI in Healthcare"],
     [pattern |-> "agents", canonical_name |-> "AI Agents"],
     [pattern |-> "agentic", canonical_name |-> "AI Agents"],
     [pattern |-> "reasoning", canonical_name |-> "AI Reasoning"],
     [pattern |-> "chain of thought", canonical_name |-> "AI Reasoning"],
     [pattern |-> "multimodal", canonical_name |-> "Multimodal AI"],
     [pattern |-> "vision", canonical_name |-> "Computer Vision"],
     [pattern |-> "voice", canonical_name |-> "Voice AI"],
     [pattern |-> "speech", canonical_name |-> "Voice AI"],
     [pattern |-> "text-to-speech", canonical_name |-> "Voice AI"],
     [pattern |-> "video", canonical_name |-> "Video AI"],
     [pattern |-> "text-to-video", canonical_name |-> "Video AI"],
     [pattern |-> "training", canonical_name |-> "Model Training"],
     [pattern |-> "fine-tuning", canonical_name |-> "Model Training"],
     [pattern |-> "inference", canonical_name |-> "AI Inference"],
     [pattern |-> "deployment", canonical_name |-> "AI Deployment"],
     [pattern |-> "open source", canonical_name |-> "Open Source AI"],
     [pattern |-> "open-source", canonical_name |-> "Open Source AI"]}

\* The capitalized words that are not taken as entities.
StopWords ==
    {"the", "this", "that", "with", "from", "have", "been", "will", "what",
     "when", "where", "which", "would", "could", "should", "about", "after",
     "before", "being", "between", "both", "each", "more", "most", "other",
     "some", "such", "than", "then", "these", "they", "through", "under",
     "very", "just", "also", "into", "over", "only", "well", "back", "even",
     "still", "first", "last", "long", "great", "little", "much", "never",
     "now", "old", "see", "way", "who", "come", "make", "like", "time",
     "know", "take", "people", "year", "good", "give", "day", "new", "want",
     "because", "any", "find", "here", "thing", "think", "say", "she", "two",
     "how", "our", "work", "world", "life", "hand", "part", "child", "eye",
     "woman", "place", "case", "week", "company", "system", "program",
     "question", "government", "number", "night", "point", "home", "water",
     "room", "mother", "area", "money", "story", "fact", "month",
     "different", "right", "study", "book", "word", "business", "issue",
     "side", "kind", "head", "house", "service", "friend", "father", "power",
     "hour", "game", "line", "end", "member", "law", "car", "city",
     "community", "name", "president", "team", "minute", "idea", "body",
     "information", "today", "read", "thread", "finding", "view"}

\* The canonical labels whose surface form is found in the text.
KnownFound(text_lower) ==
    {e.canonical_name : e \in
        {k \in KNOWN_ENTITIES :
            IF Len(k.pattern) <= 3 THEN SearchWord(text_lower, k.pattern)
            ELSE Contains(text_lower, k.pattern)}}

\* [A-Z][a-z]+ between two \b: positions i..j hold a whole word that is one
\* capital followed by small letters.
CapitalizedWord(t, i, j) ==
    /\ i \in DOMAIN t /\ j \in DOMAIN t /\ i < j
    /\ ~WordAt(t, i - 1)
    /\ IsUpper(t[i])
    /\ \A k \in (i + 1)..j : IsLower(t[k])
    /\ ~WordAt(t, j + 1)

\* (?:\s+[A-Z][a-z]+): the capitalized word i..j follows position e after
\* white space only.
FollowsAfterSpace(t, e, i, j) ==
    /\ i > e + 1
    /\ \A k \in (e + 1)..(i - 1) : IsSpace(t[k])
    /\ CapitalizedWord(t, i, j)

\* The end of the longest match of the proper-noun pattern whose last
\* capitalized word so far ends at e.
RECURSIVE NounEnd(_, _)
NounEnd(t, e) ==
    IF \E i, j \in DOMAIN t : FollowsAfterSpace(t, e, i, j)
    THEN NounEnd(t, (CHOOSE w \in (DOMAIN t) \X (DOMAIN t) :
                        FollowsAfterSpace(t, e, w[1], w[2]))[2])
    ELSE e

\* re.findall(r'\b([A-Z][a-z]+(?:\s+[A-Z][a-z]+)*)\b', text): the matches are
\* the longest runs of capitalized words separated by white space; a match
\* starts at a capitalized word that continues no earlier match.
ProperNouns(t) ==
    LET starts == {w \in (DOMAIN t) \X (DOMAIN t) :
                    /\ CapitalizedWord(t, w[1], w[2])
                    /\ ~\E i, j \in DOMAIN t :
                            /\ CapitalizedWord(t, i, j)
                            /\ FollowsAfterSpace(t, j, w[1], w[2])}
    IN  {SubSeq(t, w[1], NounEnd(t, w[2])) : w \in starts}

\* len(noun) > 3 and noun.lower() not in [...]
KeptNouns(t) ==
    {Join(n) : n \in {m \in ProperNouns(t) :
                        Len(m) > 3 /\ Join(Lower(m)) \notin StopWords}}

\* extract_entities(text)
ExtractEntities(t) ==
    IF t = <<>> THEN {}
    ELSE KnownFound(Lower(t)) \cup KeptNouns(t)

\* Variant: only the first text is kept.
SpaceJoinFirstOnly(texts) == IF texts = <<>> THEN <<>> ELSE texts[1]

\* ' '.join(texts)
RECURSIVE SpaceJoin(_)
SpaceJoin(texts) ==
    IF texts = <<>> THEN <<>>
    ELSE IF Len(texts) = 1 THEN texts[1]
    ELSE texts[1] \o <<" ">> \o SpaceJoin(Tail(texts))

\* The words the texts of a call are written with.
WordPool ==
    {<<"a", "i", "r", "c", "r", "a", "f", "t">>,
     <<"I">>,
     <<"l", "o", "v", "e">>,
     <<"A", "I">>,
     <<"A", "W", "S", ",">>,
     <<"l", "a", "w", "s">>,
     <<"O", "p", "e", "n", "A", "I", "'", "s">>,
     <<"S", "a", "m">>,
     <<"A", "l", "t", "m", "a", "n">>,
     <<"T", "h", "i", "s">>}

\* The texts of up to MaxWords words, single spaces between the words.
TextPool == {SpaceJoin(ws) : ws \in SeqsUpTo(WordPool, MaxWords)}

(***************************************************************************)
(* The specification of extract_entities.                                  *)
(***************************************************************************)
InitExtract ==
    /\ text \in TextPool
    /\ found = NotCalled
    /\ IdleCluster
    /\ IdleThreads
    /\ IdleNormalize
    /\ IdlePage

\* found = extract_entities(text)
Extract ==
    /\ ~found.called
    /\ found' = [called |-> TRUE, entities |-> ExtractEntities(text)]
    /\ UNCHANGED text
    /\ UNCHANGED <<clusterVars, threadVars, normalizeVars, pageVars>>

NextExtract == Extract

SpecExtract == InitExtract /\ [][NextExtract]_vars

(***************************************************************************)
(* normalize_item                                                          *)
(*                                                                         *)
(* A dict is a function from its keys; a missing key is outside its domain.*)
(* Headlines, descriptions and post texts are sequences of characters,     *)
(* urls, sources and usernames are strings.                                *)
(***************************************************************************)
\* {}
EmptyDict == <<>>

\* item.get(key, default)
Get(d, key, default) == IF key \in DOMAIN d THEN d[key] ELSE default

\* Variant: a missing url is left empty.
UrlOfWithoutDefault(d) == Get(d, "url", "")

\* item.get('url', '#')
UrlOf(d) == Get(d, "url", "#")

\* Python's None as the result of normalize_item.
NoItem == [none |-> TRUE]

\* '...'
Ellipsis == <<".", ".", ".">>

\* Variant: a text of exactly 100 characters is cut too.
TitleOfCutAtLimit(body) ==
    IF Len(body) >= TitleLimit
    THEN SubSeq(body, 1, TitleLimit) \o Ellipsis
    ELSE body

\* text[:100] + '...' if len(text) > 100 else text
TitleOf(body) ==
    IF Len(body) > TitleLimit
    THEN SubSeq(body, 1, TitleLimit) \o Ellipsis
    ELSE body

\* normalize_item(item, item_type)
NormalizeItem(it, kind) ==
    CASE kind = "article" ->
            LET body == Get(it, "headline", <<>>) \o <<" ">> \o Get(it, "description", <<>>)
            IN  [type     |-> "article",
                 title    |-> Get(it, "headline", <<>>),
                 text     |-> body,
                 url      |-> UrlOf(it),
                 source   |-> Get(it, "source", ""),
                 entities |-> ExtractEntities(body),
                 original |-> it]
      [] kind = "x_post" ->
            LET body == Get(it, "text", <<>>)
            IN  [type     |-> "x_post",
                 title    |-> TitleOf(body),
                 text     |-> body,
                 url      |-> UrlOf(it),
                 source   |-> "@" \o Get(it, "username", ""),
                 entities |-> ExtractEntities(body),
                 original |-> it]
      [] kind = "x_thread" ->
            LET thread_posts == Get(it, "posts", <<>>)
                combined_text == SpaceJoin([k \in DOMAIN thread_posts |->
                                                Get(thread_posts[k], "text", <<>>)])
                first_text == IF thread_posts # <<>>
                              THEN Get(thread_posts[1], "text", <<>>) ELSE <<>>
            IN  [type     |-> "x_thread",
                 title    |-> TitleOf(first_text),
                 text     |-> combined_text,
                 url      |-> IF thread_posts # <<>> THEN UrlOf(thread_posts[1]) ELSE "#",
                 source   |-> "@" \o Get(it, "username", ""),
                 entities |-> ExtractEntities(combined_text),
                 original |-> it]
      [] OTHER -> NoItem

\* The dicts with the key or without it.
Optional(key, values) == {EmptyDict} \cup {key :> v : v \in values}

\* A text of n characters: "openai openai ..." cut after n.
Filler(n) ==
    LET phrase == <<"o", "p", "e", "n", "a", "i", " ">>
    IN  [i \in 1..n |-> phrase[((i - 1) % Len(phrase)) + 1]]

\* The texts of posts: short ones, and texts from one character under the
\* title limit to MaxExcess characters over it.
PostTextPool ==
    {<<>>,
     <<"a", "n", "t", "h", "r", "o", "p", "i", "c">>,
     <<"s", "a", "f", "e", "t", "y">>}
        \cup {Filler(n) : n \in (TitleLimit - 1)..(TitleLimit + MaxExcess)}

PostDicts ==
    {t @@ u @@ n : t \in Optional("text", PostTextPool),
                   u \in Optional("url", {"https://x.com/alice/1"}),
                   n \in Optional("username", {"alice"})}

ArticleDicts ==
    {h @@ d @@ u @@ o :
        h \in Optional("headline", {<<"s", "a", "f", "e", "t", "y">>, Filler(TitleLimit + 1)}),
        d \in Optional("description", {<<"a", "n", "t", "h", "r", "o", "p", "i", "c">>}),
        u \in Optional("url", {"https://example.com/a"}),
        o \in Optional("source", {"Techmeme"})}

\* The posts a thread is made of.
ThreadPostPool ==
    {EmptyDict,
     [text |-> <<"s", "a", "f", "e", "t", "y">>, url |-> "https://x.com/alice/1"],
     [text |-> <<"a", "n", "t", "h", "r", "o", "p", "i", "c">>],
     [text |-> Filler(TitleLimit + 1), url |-> "https://x.com/alice/2"]}

\* {'is_thread': True, 'posts': [...], 'username': ...}, with or without the
\* keys 'posts' and 'username'.
ThreadDicts ==
    {("is_thread" :> TRUE) @@ ps @@ n :
        ps \in Optional("posts", SeqsUpTo(ThreadPostPool, MaxThreadPosts)),
        n \in Optional("username", {"alice"})}

NormalizeItemPool == PostDicts \cup ArticleDicts \cup ThreadDicts

\* The three kinds normalize_item knows and one it does not.
ItemTypePool == {"article", "x_post", "x_thread", "video"}

(***************************************************************************)
(* The specification of normalize_item.                                    *)
(***************************************************************************)
InitNormalize ==
    /\ item \in NormalizeItemPool
    /\ item_type \in ItemTypePool
    /\ normalized = NotCalled
    /\ IdleCluster
    /\ IdleThreads
    /\ IdleExtract
    /\ IdlePage

\* normalized = normalize_item(item, item_type)
Normalize ==
    /\ ~normalized.called
    /\ normalized' = [called |-> TRUE, value |-> NormalizeItem(item, item_type)]
    /\ UNCHANGED <<item, item_type>>
    /\ UNCHANGED <<clusterVars, threadVars, extractVars, pageVars>>

NextNormalize == Normalize

SpecNormalize == InitNormalize /\ [][NextNormalize]_vars

(***************************************************************************)
(* detect_threads                                                          *)
(***************************************************************************)
\* Python's None as a parsed timestamp.
NoDatetime == [kind |-> "none", t |-> SentinelInstant]

\* The posts a call draws from.  created_at is written in one of the forms
\*   utc     2024-01-01T10:00:00Z         offset  0001-01-01T00:00:00+01:00
\*   local   2024-01-01T00:05:00          date    2024-01-01
\*   absent  (no created_at key)          garbage (text that is no timestamp)
\* t is the instant written (utc, offset) or the wall-clock reading (local,
\* date), in half minutes.  alice's utc posts lie 0, 5, 9, 10, 10.5 and 25
\* minutes after the first one; bob's offset post lies one hour before the
\* sentinel instant.
PostPool ==
    {[username |-> "alice", created_at |-> [form |-> "utc", t |-> u]] :
        u \in {2000, 2010, 2018, 2020, 2021, 2050}}
    \cup {[username |-> "alice", created_at |-> [form |-> "absent", t |-> 0]],
          [username |-> "bob",   created_at |-> [form |-> "garbage", t |-> 0]],
          [username |-> "bob",   created_at |-> [form |-> "date", t |-> 2000]],
          [username |-> "bob",   created_at |-> [form |-> "local", t |-> 2010]],
          [username |-> "bob",   created_at |-> [form |-> "offset", t |-> -120]]}

ThresholdPool == {5, DefaultThresholdMinutes}

\* try: dt = datetime.fromisoformat(created_at.replace('Z', '+00:00'))
\* except: dt = None
\* A timestamp with a designator parses to an aware datetime, one without
\* (date-only included) to a naive datetime, anything else to None.
ParseCreatedAt(created_at) ==
    CASE created_at.form \in {"utc", "offset"} -> [kind |-> "aware", t |-> created_at.t]
      [] created_at.form \in {"local", "date"} -> [kind |-> "naive", t |-> created_at.t]
      [] OTHER                                 -> NoDatetime

\* lambda x: x[1] if x[1] else datetime.min.replace(tzinfo=timezone.utc)
SortKey(dt) ==
    IF dt.kind = "none" THEN [kind |-> "aware", t |-> SentinelInstant] ELSE dt

\* Python refuses to order a naive and an aware datetime (TypeError).  A sort
\* of two or more keys compares across the two kinds as soon as both occur.
SortRaises(keys) ==
    /\ \E i \in DOMAIN keys : keys[i].kind = "naive"
    /\ \E i \in DOMAIN keys : keys[i].kind = "aware"

\* by_author: the usernames in order of first appearance, each with the
\* positions of its posts in input order.
ByAuthor(ps) ==
    LET idx == [i \in DOMAIN ps |-> i]
        firsts == SelectSeq(idx, LAMBDA i :
                        \A j \in 1..(i - 1) : ps[j].username # ps[i].username)
    IN  [a \in DOMAIN firsts |->
            [username |-> ps[firsts[a]].username,
             author_posts |-> SelectSeq(idx, LAMBDA i :
                                ps[i].username = ps[firsts[a]].username)]]

\* dt of the post at position i
DtOf(ps, i) == ParseCreatedAt(ps[i].created_at)

\* Variant: the author's posts are sorted most recent first.
SortAuthorPostsDescending(ps, author_posts) ==
    StableSort(author_posts,
               [i \in DOMAIN author_posts |-> [j \in DOMAIN author_posts |->
                    SortKey(DtOf(ps, author_posts[i])).t
                        > SortKey(DtOf(ps, author_posts[j])).t]])

\* by_author[username].sort(key=...): ascending by time, stable
SortAuthorPosts(ps, author_posts) ==
    StableSort(author_posts,
               [i \in DOMAIN author_posts |-> [j \in DOMAIN author_posts |->
                    SortKey(DtOf(ps, author_posts[i])).t
                        < SortKey(DtOf(ps, author_posts[j])).t]])

\* Variant: the threshold is exclusive.
WithinThresholdExclusive(dt, prev_dt, threshold) ==
    LET diff == IF dt.t >= prev_dt.t THEN dt.t - prev_dt.t ELSE prev_dt.t - dt.t
    IN  diff < 2 * threshold

\* time_diff <= time_threshold_minutes, with
\* time_diff = abs((dt - prev_dt).total_seconds() / 60); instants count half minutes
WithinThreshold(dt, prev_dt, threshold) ==
    LET diff == IF dt.t >= prev_dt.t THEN dt.t - prev_dt.t ELSE prev_dt.t - dt.t
    IN  diff <= 2 * threshold

\* Variant: a missing timestamp counts as the sentinel instant in the test too.
JoinsThreadWithSentinel(dt, prev_dt, threshold) ==
    WithinThreshold(SortKey(dt), SortKey(prev_dt), threshold)

\* if dt and prev_dt: ... if time_diff <= time_threshold_minutes
JoinsThread(dt, prev_dt, threshold) ==
    /\ dt.kind # "none"
    /\ prev_dt.kind # "none"
    /\ WithinThreshold(dt, prev_dt, threshold)

\* dt - prev_dt raises TypeError when exactly one of the two is naive
SubtractRaises(dt, prev_dt) ==
    /\ dt.kind # "none"
    /\ prev_dt.kind # "none"
    /\ dt.kind # prev_dt.kind

\* Variant: a run of one post is closed as a thread too.
CloseRunAlwaysThread(ps, username, current_thread) ==
    [dt   |-> DtOf(ps, current_thread[1]),
     item |-> [is_thread |-> Len(current_thread) >= 1,
               posts     |-> current_thread,
               username  |-> username]]

\* Variant: a closed run keeps its first post only.
CloseRunFirstPost(ps, username, current_thread) ==
    [dt   |-> DtOf(ps, current_thread[1]),
     item |-> [is_thread |-> Len(current_thread) >= 2,
               posts     |-> <<current_thread[1]>>,
               username  |-> username]]

\* The entry appended to result_items when a run is closed: the run's first
\* timestamp with a thread of the run, or with the run's only post.
CloseRun(ps, username, current_thread) ==
    [dt   |-> DtOf(ps, current_thread[1]),
     item |-> [is_thread |-> Len(current_thread) >= 2,
               posts     |-> current_thread,
               username  |-> username]]

\* The loop over one author's sorted posts, from position i on.  st holds the
\* entries emitted so far, the open run and whether the call has raised.
RECURSIVE ThreadLoop(_, _, _, _, _, _)
ThreadLoop(ps, username, sorted, threshold, i, st) ==
    IF st.raised THEN st
    ELSE IF i > Len(sorted)
        THEN [st EXCEPT !.result_items =
                    Append(@, CloseRun(ps, username, st.current_thread))]
    ELSE LET dt == DtOf(ps, sorted[i])
             prev_dt == DtOf(ps, st.current_thread[Len(st.current_thread)])
         IN  IF SubtractRaises(dt, prev_dt)
                THEN [st EXCEPT !.raised = TRUE]
             ELSE IF JoinsThread(dt, prev_dt, threshold)
                THEN ThreadLoop(ps, username, sorted, threshold, i + 1,
                        [st EXCEPT !.current_thread = Append(@, sorted[i])])
             ELSE ThreadLoop(ps, username, sorted, threshold, i + 1,
                        [st EXCEPT !.result_items =
                                Append(@, CloseRun(ps, username, st.current_thread)),
                                   !.current_thread = <<sorted[i]>>])

\* The body of "for username, author_posts in by_author.items()" for one author.
AuthorItems(ps, author, threshold, st) ==
    IF st.raised THEN st
    ELSE IF SortRaises([k \in DOMAIN author.author_posts |->
                            SortKey(DtOf(ps, author.author_posts[k]))])
        THEN [st EXCEPT !.raised = TRUE]
    ELSE LET sorted == SortAuthorPosts(ps, author.author_posts)
         IN  IF Len(sorted) = 1
                THEN [st EXCEPT !.result_items =
                            Append(@, CloseRun(ps, author.username, sorted))]
             ELSE ThreadLoop(ps, author.username, sorted, threshold, 2,
                             [st EXCEPT !.current_thread = <<sorted[1]>>])

RECURSIVE AuthorsLoop(_, _, _, _, _)
AuthorsLoop(ps, by_author, threshold, a, st) ==
    IF a > Len(by_author) THEN st
    ELSE AuthorsLoop(ps, by_author, threshold, a + 1,
                     AuthorItems(ps, by_author[a], threshold, st))

\* result_items.sort(key=..., reverse=True): descending by time, stable
SortResultItems(result_items) ==
    StableSort(result_items,
               [i \in DOMAIN result_items |-> [j \in DOMAIN result_items |->
                    SortKey(result_items[i].dt).t > SortKey(result_items[j].dt).t]])

\* detect_threads(posts, time_threshold_minutes)
DetectThreads(ps, threshold) ==
    IF ps = <<>> THEN [called |-> TRUE, raised |-> FALSE, items |-> <<>>]
    ELSE LET st == AuthorsLoop(ps, ByAuthor(ps), threshold, 1,
                        [result_items |-> <<>>, current_thread |-> <<>>, raised |-> FALSE])
             raises == \/ st.raised
                       \/ SortRaises([k \in DOMAIN st.result_items |->
                                            SortKey(st.result_items[k].dt)])
         IN  IF raises
             THEN [called |-> TRUE, raised |-> TRUE, items |-> <<>>]
             ELSE LET sorted == SortResultItems(st.result_items)
                  IN  [called |-> TRUE, raised |-> FALSE,
                       items |-> [k \in DOMAIN sorted |-> sorted[k].item]]

(***************************************************************************)
(* The specification of detect_threads.                                    *)
(***************************************************************************)
InitThreads ==
    /\ posts \in SeqsUpTo(PostPool, MaxPosts)
    /\ time_threshold_minutes \in ThresholdPool
    /\ threads = NotCalled
    /\ items = <<>>
    /\ min_cluster_size = 2
    /\ clusters = NotCalled
    /\ again = NotCalled
    /\ permuted = NotCalled
    /\ IdleExtract
    /\ IdleNormalize
    /\ IdlePage

\* threads = detect_threads(posts, time_threshold_minutes)
Detect ==
    /\ ~threads.called
    /\ threads' = DetectThreads(posts, time_threshold_minutes)
    /\ UNCHANGED <<posts, time_threshold_minutes>>
    /\ UNCHANGED <<clusterVars, extractVars, normalizeVars, pageVars>>

NextThreads == Detect

SpecThreads == InitThreads /\ [][NextThreads]_vars

(***************************************************************************)
(* generate_html, up to the clustering of the normalized items.            *)
(***************************************************************************)
\* if normalized: a result of normalize_item is None or a dict with keys
Truthy(v) == v # NoItem

\* [normalize_item(article, 'article') for each article], the None results dropped
NormalizedArticles(articles) ==
    SelectSeq([k \in DOMAIN articles |-> NormalizeItem(articles[k], "article")], Truthy)

\* Variant: a thread is passed on with its first post only.
ThreadOrPostFirstOnly(ps, entry) ==
    IF entry.is_thread
    THEN [is_thread |-> TRUE,
          posts     |-> <<ps[entry.posts[1]]>>,
          username  |-> entry.username]
    ELSE ps[entry.posts[1]]

\* An item returned by detect_threads as the dict the code builds: a thread
\* with its posts, or the post itself.
ThreadOrPost(ps, entry) ==
    IF entry.is_thread
    THEN [is_thread |-> TRUE,
          posts     |-> [k \in DOMAIN entry.posts |-> ps[entry.posts[k]]],
          username  |-> entry.username]
    ELSE ps[entry.posts[1]]

\* The loop over x_items: a thread is normalized as 'x_thread', anything else
\* as 'x_post'; the None results are dropped.
NormalizedPosts(ps, x_items) ==
    SelectSeq([k \in DOMAIN x_items |->
                    LET d == ThreadOrPost(ps, x_items[k])
                    IN  IF Get(d, "is_thread", FALSE) = TRUE
                        THEN NormalizeItem(d, "x_thread")
                        ELSE NormalizeItem(d, "x_post")],
              Truthy)

\* The sets of labels with two or more non-generic labels that the texts of
\* a page can share, each with an enumeration order.
PageEnumerations ==
    EnumerationsOver({S \in SUBSET Entities : Cardinality(S \ GenericTopics) >= 2})

\* if x_posts: x_items = detect_threads(x_posts)
XItems(xp) ==
    IF xp # <<>> THEN DetectThreads(xp, DefaultThresholdMinutes)
    ELSE [called |-> FALSE, raised |-> FALSE, items |-> <<>>]

\* all_items: the normalized articles of both lists, then the normalized
\* threads and posts.
AllItems(tm, tc, xp) ==
    IF XItems(xp).raised THEN <<>>
    ELSE NormalizedArticles(tm) \o NormalizedArticles(tc)
            \o NormalizedPosts(xp, XItems(xp).items)

\* The outcome of generate_html up to line 792 when detect_threads has raised
\* or not and, if not, all_items holds all and the sets are enumerated as keys
\* and enum say: clusters = cluster_by_topic(all_items, min_cluster_size=2).
GenerateHtml(detect_raised, all, keys, enum) ==
    IF detect_raised
    THEN [called |-> TRUE, raised |-> TRUE, all_items |-> <<>>, clusters |-> <<>>]
    ELSE LET out == ClusterByTopic(all, 2, keys, enum)
         IN  [called |-> TRUE, raised |-> out.raised,
              all_items |-> all, clusters |-> out.clusters]

PageArticlePool ==
    {EmptyDict,
     [headline    |-> <<"o", "p", "e", "n", "a", "i">>,
      description |-> <<"a", "n", "t", "h", "r", "o", "p", "i", "c">>,
      url         |-> "https://example.com/a",
      source      |-> "Techmeme"]}

PagePostPool ==
    {[username |-> "alice", created_at |-> [form |-> "utc", t |-> 2000],
      text |-> <<"o", "p", "e", "n", "a", "i">>],
     [username |-> "alice", created_at |-> [form |-> "utc", t |-> 2010],
      text |-> <<"a", "n", "t", "h", "r", "o", "p", "i", "c">>,
      url |-> "https://x.com/alice/2"],
     [username |-> "alice", created_at |-> [form |-> "absent", t |-> 0]],
     [username |-> "bob", created_at |-> [form |-> "local", t |-> 2010],
      text |-> <<"o", "p", "e", "n", "a", "i">>]}

(***************************************************************************)
(* The specification of generate_html, and the one of normalize_item and   *)
(* generate_html together.                                                 *)
(***************************************************************************)
InitPage ==
    /\ techmeme_articles \in SeqsUpTo(PageArticlePool, MaxPageArticles)
    /\ techcrunch_articles \in SeqsUpTo(PageArticlePool, MaxPageArticles)
    /\ x_posts \in SeqsUpTo(PagePostPool, MaxPagePosts)
    /\ page = NotCalled
    /\ IdleCluster
    /\ IdleThreads
    /\ IdleExtract
    /\ IdleNormalize

\* page = generate_html(techmeme_articles, techcrunch_articles, x_posts)
GeneratePage ==
    /\ ~page.called
    /\ \E all \in {AllItems(techmeme_articles, techcrunch_articles, x_posts)} :
        \E keys \in KeyOrders(all), enum \in PageEnumerations :
            page' = GenerateHtml(XItems(x_posts).raised, all, keys, enum)
    /\ UNCHANGED <<techmeme_articles, techcrunch_articles, x_posts>>
    /\ UNCHANGED <<clusterVars, threadVars, extractVars, normalizeVars>>

NextPage == GeneratePage

SpecPage == InitPage /\ [][NextPage]_vars

InitItems == InitNormalize \/ InitPage

NextItems == Normalize \/ GeneratePage

SpecItems == InitItems /\ [][NextItems]_vars

(***************************************************************************)
(* Properties of cluster_by_topic, checked under SpecCluster.              *)
(***************************************************************************)
\* The call recorded in out has returned (it was made and did not raise).
Returned(out) == out.called /\ ~out.raised

\* The places (cluster, position) of out at which item i appears.
Places(out, i) ==
    {pl \in UNION {{<<c, k>> : k \in DOMAIN out.clusters[c].items} :
                        c \in DOMAIN out.clusters} :
        out.clusters[pl[1]].items[pl[2]] = i}

\* The members of the c-th cluster of out, as a set of item positions.
Members(out, c) == Range(out.clusters[c].items)

\* C1: for every items list and every min_cluster_size >= 1 the call returns
\* and each input item, by position, is at exactly one place of exactly one
\* output cluster; the clusters hold nothing but input items.
C1_EachItemInExactlyOneCluster ==
    (clusters.called /\ min_cluster_size >= 1) =>
        /\ ~clusters.raised
        /\ \A i \in DOMAIN items : Cardinality(Places(clusters, i)) = 1
        /\ \A c \in DOMAIN clusters.clusters : Members(clusters, c) \subseteq DOMAIN items

\* A call with min_cluster_size >= 1 that formed a cluster of several items
\* and left another item unclustered.
C1_Witness ==
    /\ Returned(clusters)
    /\ min_cluster_size >= 1
    /\ \E c, d \in DOMAIN clusters.clusters :
        /\ Len(clusters.clusters[c].items) >= 2
        /\ clusters.clusters[d].topic = NoTopic

\* C2: in every returned cluster with more than one item, every member's
\* entity set contains every entity of the cluster's 'entities' field.
C2_MembersContainSharedEntities ==
    Returned(clusters) =>
        \A c \in DOMAIN clusters.clusters :
            Len(clusters.clusters[c].items) > 1 =>
                \A i \in Members(clusters, c) :
                    clusters.clusters[c].entities \subseteq GetEntities(items[i])

\* A cluster of several items of which one carries an entity the others lack.
C2_Witness ==
    /\ Returned(clusters)
    /\ \E c \in DOMAIN clusters.clusters :
        /\ Len(clusters.clusters[c].items) > 1
        /\ \E i \in Members(clusters, c) :
                GetEntities(items[i]) # clusters.clusters[c].entities

\* C3: along the returned sequence the item counts never increase, so a larger
\* cluster precedes every smaller one and every cluster of several items
\* precedes every cluster of one item.
C3_SizesNonIncreasing ==
    Returned(clusters) =>
        \A c, d \in DOMAIN clusters.clusters :
            c < d => Len(clusters.clusters[c].items) >= Len(clusters.clusters[d].items)

\* A returned sequence with a cluster formed after a smaller one was formed:
\* a cluster of several items, a cluster of one item with a topic, and an
\* unclustered item behind them.
C3_Witness ==
    /\ Returned(clusters)
    /\ \E c, d \in DOMAIN clusters.clusters :
        /\ c < d
        /\ Len(clusters.clusters[c].items) >= 2
        /\ Len(clusters.clusters[d].items) = 1
    /\ \E c, d \in DOMAIN clusters.clusters :
        /\ c < d
        /\ Len(clusters.clusters[c].items) > Len(clusters.clusters[d].items)
        /\ Len(clusters.clusters[d].items) >= 2 \/ clusters.clusters[d].topic # NoTopic

\* C6 (as claimed): a second call with the same items list, the same entity
\* sets and the same min_cluster_size has the same outcome as the first.
C6_SecondCallSameOutcome ==
    again.called => again = clusters

\* The clusters of out as a set of groups: members, shared entities, topic.
Groups(out) ==
    {[items    |-> Members(out, c),
      entities |-> out.clusters[c].entities,
      topic    |-> out.clusters[c].topic] : c \in DOMAIN out.clusters}

\* The clusters of out as a set of groups without their topic labels.
GroupsUnlabelled(out) ==
    {[items |-> Members(out, c), entities |-> out.clusters[c].entities] :
        c \in DOMAIN out.clusters}

\* The number of items that contain entity e.
ItemCount(e) == Cardinality({i \in DOMAIN items : e \in GetEntities(items[i])})

\* The entities that occur in the items list.
Occurring == UNION {GetEntities(items[i]) : i \in DOMAIN items}

\* No two occurring entities are contained in the same number of items.
NoCountTies ==
    \A e, f \in Occurring : e # f => ItemCount(e) # ItemCount(f)

\* The groups that a call on the items in their original order can return,
\* over all the orders in which the sets can be enumerated.
PossibleGroups ==
    {Groups(ClusterByTopic(items, min_cluster_size, keys, enum)) :
        keys \in KeyOrders(items), enum \in SharedEnumerations}

\* C7 (as claimed): a call on a reordering of the same items returns the same
\* groups of items with the same topic labels as a call on the original order.
\* Read in favour of the claim: the groups returned for the reordered list are
\* groups that the original order returns under some enumeration of the sets.
C7_ReorderingSameClusters ==
    Returned(permuted) => Groups(permuted) \in PossibleGroups

\* C7 (amended): when no two entities are contained in the same number of
\* items, the call on a reordering raises exactly if the original call does,
\* and otherwise has the same groups of items with the same shared entities;
\* the topic label of a group is the same too when its shared entities hold
\* at most one non-generic label.
C7_ReorderingSameGroupsWithoutTies ==
    (permuted.called /\ NoCountTies) =>
        /\ permuted.raised = clusters.raised
        /\ GroupsUnlabelled(permuted) = GroupsUnlabelled(clusters)
        /\ \A g \in Groups(clusters) :
                Cardinality(g.entities \ GenericTopics) <= 1 => g \in Groups(permuted)

\* A reordered call without count ties whose two calls formed a cluster while
\* the reordering put another item first.
C7_Witness ==
    /\ Returned(permuted)
    /\ NoCountTies
    /\ Cardinality(Occurring) >= 2
    /\ \E c \in DOMAIN clusters.clusters : clusters.clusters[c].topic # NoTopic
    /\ \E c \in DOMAIN permuted.clusters :
            permuted.clusters[c].items # clusters.clusters[c].items

\* C9 (as claimed): the call never raises, whatever the items list and
\* whatever the integer min_cluster_size, and returns [] for [].
C9_ClusterNeverRaises ==
    clusters.called =>
        /\ ~clusters.raised
        /\ items = <<>> => clusters.clusters = <<>>

\* Entity e is contained in all n >= 1 items, n >= min_cluster_size, and no
\* other entity is contained in more than one item.
OnlySharedEntity(e) ==
    /\ Len(items) >= 1
    /\ Len(items) >= min_cluster_size
    /\ \A i \in DOMAIN items : e \in GetEntities(items[i])
    /\ \A f \in Occurring \ {e} : ItemCount(f) <= 1

\* out is exactly one cluster, of all items, with topic e.
OneClusterOfAll(out, e) ==
    /\ ~out.raised
    /\ Len(out.clusters) = 1
    /\ Members(out, 1) = DOMAIN items
    /\ Len(out.clusters[1].items) = Len(items)
    /\ out.clusters[1].topic = e

C11_NoFrequentEntityAllSingletons ==
    (clusters.called /\ \A e \in Occurring : ItemCount(e) < min_cluster_size) =>
        /\ ~clusters.raised
        /\ Len(clusters.clusters) = Len(items)
        /\ \A i \in DOMAIN items :
                \E c \in DOMAIN clusters.clusters :
                    /\ clusters.clusters[c].items = <<i>>
                    /\ clusters.clusters[c].topic = NoTopic

\* Two or more items with non-empty, pairwise disjoint entity sets, called
\* with min_cluster_size 2 or more, have come back as clusters of one item.
C11_Witness ==
    /\ Returned(clusters)
    /\ min_cluster_size >= 2
    /\ Len(items) >= 2
    /\ \A i \in DOMAIN items : GetEntities(items[i]) # {}
    /\ \A e \in Occurring : ItemCount(e) < min_cluster_size
    /\ \A c \in DOMAIN clusters.clusters : Len(clusters.clusters[c].items) = 1

\* C12: in every returning call, an item whose entity set is empty is the
\* only member of one cluster that has no topic and no entities, and is a
\* member of no other cluster.
C12_EmptyEntityItemAloneWithoutTopic ==
    Returned(clusters) =>
        \A i \in DOMAIN items :
            GetEntities(items[i]) = {} =>
                \E c \in DOMAIN clusters.clusters :
                    /\ clusters.clusters[c].items = <<i>>
                    /\ clusters.clusters[c].topic = NoTopic
                    /\ clusters.clusters[c].entities = {}
                    /\ \A d \in DOMAIN clusters.clusters :
                            d # c => i \notin Members(clusters, d)

\* An item with an empty entity set and an item without the 'entities' key
\* lie between items that have formed a cluster with a topic.
C12_Witness ==
    /\ Returned(clusters)
    /\ \E i, j \in DOMAIN items :
        /\ "entities" \in DOMAIN items[i] /\ items[i].entities = {}
        /\ "entities" \notin DOMAIN items[j]
    /\ \E c \in DOMAIN clusters.clusters :
        /\ Len(clusters.clusters[c].items) >= 2
        /\ clusters.clusters[c].topic # NoTopic

\* The c-th cluster of out carries exactly the entity set of its only item.
CarriesOwnEntities(out, c) ==
    out.clusters[c].entities = GetEntities(items[out.clusters[c].items[1]])

\* C13 (as claimed): for min_cluster_size >= 1, every returned cluster of
\* exactly one item has no topic and carries that item's own entity set.
C13_OneItemClusterHasNoTopic ==
    (Returned(clusters) /\ min_cluster_size >= 1) =>
        \A c \in DOMAIN clusters.clusters :
            Len(clusters.clusters[c].items) = 1 =>
                /\ clusters.clusters[c].topic = NoTopic
                /\ CarriesOwnEntities(clusters, c)

\* C13 (amended): for min_cluster_size >= 1, every returned cluster of exactly
\* one item carries that item's own entity set; it has no topic when
\* min_cluster_size >= 2, and when min_cluster_size = 1 it has no topic
\* exactly if that entity set is empty.
C13_OneItemClusterOwnEntities ==
    (Returned(clusters) /\ min_cluster_size >= 1) =>
        \A c \in DOMAIN clusters.clusters :
            Len(clusters.clusters[c].items) = 1 =>
                /\ CarriesOwnEntities(clusters, c)
                /\ min_cluster_size >= 2 => clusters.clusters[c].topic = NoTopic
                /\ min_cluster_size = 1 =>
                        (clusters.clusters[c].topic = NoTopic
                            <=> clusters.clusters[c].entities = {})

\* With min_cluster_size 2: a cluster of several items next to an unclustered
\* item that has entities of its own.
C13_Witness ==
    /\ Returned(clusters)
    /\ min_cluster_size >= 2
    /\ \E c, d \in DOMAIN clusters.clusters :
        /\ Len(clusters.clusters[c].items) >= 2
        /\ Len(clusters.clusters[d].items) = 1
        /\ clusters.clusters[d].entities # {}

\* The positions of the items that contain entity e.
Carriers(e) == {i \in DOMAIN items : e \in GetEntities(items[i])}

\* The items that returned clusters with a topic hold.
Claimed(out) ==
    UNION {Members(out, c) : c \in {d \in DOMAIN out.clusters :
                                        out.clusters[d].topic # NoTopic}}

\* Entity e can be the one the c-th cluster of out was formed from: the
\* members all contain it, and every other item that contains it has been
\* claimed by a cluster with a topic.
CanBeSeed(out, c, e) ==
    /\ e \in out.clusters[c].entities
    /\ Members(out, c) \subseteq Carriers(e)
    /\ Carriers(e) \ Members(out, c) \subseteq Claimed(out)

EntryOf(e) ==
    [entity       |-> e,
     item_indices |-> SelectSeq([i \in DOMAIN items |-> i],
                                LAMBDA i : e \in GetEntities(items[i]))]

\* The state of the loop when the items of used have been claimed.
LoopState(used) == [used_items |-> used, clusters |-> <<>>, raised |-> FALSE]

\* C23: every returned cluster that has a topic holds at least
\* min_cluster_size items; and whatever items have been claimed, the step of
\* an entity with fewer than min_cluster_size items left changes nothing.
C23_SeededClustersReachMinSize ==
    Returned(clusters) =>
        /\ \A c \in DOMAIN clusters.clusters :
                clusters.clusters[c].topic # NoTopic =>
                    Len(clusters.clusters[c].items) >= min_cluster_size
        /\ \A e \in Occurring, used \in SUBSET DOMAIN items :
                Cardinality(Carriers(e) \ used) < min_cluster_size =>
                    ClusterStep(items, min_cluster_size, EntryOf(e), <<>>, LoopState(used))
                        = LoopState(used)

\* An entity that min_cluster_size or more items contain was skipped: another
\* cluster had claimed some of them, and one of the rest stands alone.
C23_Witness ==
    /\ Returned(clusters)
    /\ min_cluster_size >= 2
    /\ \E e \in Occurring, c, d \in DOMAIN clusters.clusters :
        /\ ItemCount(e) >= min_cluster_size
        /\ clusters.clusters[c].topic = NoTopic
        /\ Members(clusters, c) \subseteq Carriers(e)
        /\ clusters.clusters[d].topic # NoTopic
        /\ Len(clusters.clusters[d].items) >= min_cluster_size
        /\ Members(clusters, d) \cap Carriers(e) # {}

\* The greatest number of items that contain one entity.
MostShared ==
    CHOOSE n \in 0..Len(items) :
        /\ \A e \in Occurring : ItemCount(e) <= n
        /\ n > 0 => \E e \in Occurring : ItemCount(e) = n

\* C24: when some entity is contained in min_cluster_size or more items, the
\* first returned cluster has as many items as the most shared entity has,
\* and, formed from an entity, it holds every item that contains that entity;
\* a cluster of that size formed from an entity is among the returned ones.
C24_FirstClusterHoldsMostShared ==
    (Returned(clusters) /\ \E e \in Occurring : ItemCount(e) >= min_cluster_size) =>
        /\ clusters.clusters # <<>>
        /\ Len(clusters.clusters[1].items) = MostShared
        /\ clusters.clusters[1].topic # NoTopic =>
                \E e \in Occurring :
                    /\ CanBeSeed(clusters, 1, e)
                    /\ Carriers(e) = Members(clusters, 1)
        /\ \E c \in DOMAIN clusters.clusters, e \in Occurring :
                /\ clusters.clusters[c].topic # NoTopic
                /\ Len(clusters.clusters[c].items) = MostShared
                /\ CanBeSeed(clusters, c, e)
                /\ Carriers(e) = Members(clusters, c)

\* The most shared entity is not the first of its item and has claimed items
\* that a less shared entity holds too; the rest of those stand alone.
C24_Witness ==
    /\ Returned(clusters)
    /\ min_cluster_size >= 2
    /\ MostShared >= 2
    /\ MostShared < Len(items)
    /\ Len(clusters.clusters[1].items) = MostShared
    /\ clusters.clusters[1].topic # NoTopic
    /\ \E e, f \in Occurring :
        /\ ItemCount(e) = MostShared
        /\ ItemCount(f) >= min_cluster_size
        /\ ItemCount(f) < MostShared
        /\ Carriers(e) = Members(clusters, 1)
        /\ Carriers(f) \cap Carriers(e) # {}
        /\ Carriers(f) \ Carriers(e) # {}

\* The unclaimed items: those returned in clusters without topic.
Unclaimed(out) == DOMAIN items \ Claimed(out)

\* C26 (as claimed): when the call returns, fewer than min_cluster_size of
\* the unclaimed items contain any one entity.
C26_FewerThanMinUnclaimedCarriers ==
    Returned(clusters) =>
        \A e \in Occurring :
            Cardinality(Unclaimed(clusters) \cap Carriers(e)) < min_cluster_size

\* C26 (amended): when the call returns with min_cluster_size >= 1, fewer
\* than min_cluster_size of the unclaimed items contain any one entity, so
\* with min_cluster_size 2 no two clusters without topic share an entity;
\* when it returns with min_cluster_size 0, no unclaimed item contains an
\* entity.
C26_UnclaimedCarriersBelowMin ==
    Returned(clusters) =>
        /\ min_cluster_size >= 1 =>
            \A e \in Entities :
                Cardinality(Unclaimed(clusters) \cap Carriers(e)) < min_cluster_size
        /\ min_cluster_size = 2 =>
            \A c, d \in DOMAIN clusters.clusters :
                (/\ c # d
                 /\ clusters.clusters[c].topic = NoTopic
                 /\ clusters.clusters[d].topic = NoTopic)
                    => clusters.clusters[c].entities \cap clusters.clusters[d].entities = {}
        /\ min_cluster_size = 0 =>
            \A i \in Unclaimed(clusters) : GetEntities(items[i]) = {}

\* With min_cluster_size 2: two unclaimed items with entities of their own,
\* one of them holding an entity that a cluster has claimed elsewhere.
C26_Witness ==
    /\ Returned(clusters)
    /\ min_cluster_size = 2
    /\ \E i, j \in Unclaimed(clusters) :
        /\ i # j
        /\ GetEntities(items[i]) # {}
        /\ GetEntities(items[j]) # {}
    /\ \E e \in Occurring :
        /\ ItemCount(e) >= min_cluster_size
        /\ Cardinality(Unclaimed(clusters) \cap Carriers(e)) = 1

\* The entities that every item of the set S of positions contains.
CommonEntities(S) == {e \in Entities : \A i \in S : e \in GetEntities(items[i])}

\* C27: for min_cluster_size >= 1 the call returns, and the shared entities
\* of every cluster with a topic are exactly the entities common to all its
\* members and are not empty; whatever items have been claimed, the entities
\* common to the items an entity has left contain that entity, so the shared
\* entities computed for them never come from the fallback.
C27_SeedInIntersection ==
    (clusters.called /\ min_cluster_size >= 1) =>
        /\ ~clusters.raised
        /\ \A c \in DOMAIN clusters.clusters :
                clusters.clusters[c].topic # NoTopic =>
                    /\ clusters.clusters[c].entities # {}
                    /\ clusters.clusters[c].entities = CommonEntities(Members(clusters, c))
        /\ \A e \in Occurring, used \in SUBSET DOMAIN items :
                Carriers(e) \ used # {} =>
                    LET available == AvailableIndices(EntryOf(e).item_indices, used)
                    IN  /\ e \in CommonEntities(Range(available))
                        /\ SharedEntities(items, available, e)
                                = CommonEntities(Range(available))

\* A cluster of items with different entity sets: its shared entities are
\* fewer than the entities of each member.
C27_Witness ==
    /\ Returned(clusters)
    /\ min_cluster_size >= 1
    /\ \E c \in DOMAIN clusters.clusters :
        /\ clusters.clusters[c].topic # NoTopic
        /\ Len(clusters.clusters[c].items) >= 2
        /\ Cardinality(clusters.clusters[c].entities) = 1
        /\ \A i \in Members(clusters, c) :
                /\ clusters.clusters[c].entities \subseteq GetEntities(items[i])
                /\ clusters.clusters[c].entities # GetEntities(items[i])
        /\ \E i, j \in Members(clusters, c) : GetEntities(items[i]) # GetEntities(items[j])

\* C28: in every returning call the items of each cluster stand in ascending
\* input position, and of two clusters without topic the one whose item comes
\* first in the input comes first in the output.
C28_InputOrderKept ==
    Returned(clusters) =>
        /\ \A c \in DOMAIN clusters.clusters :
                \A k, l \in DOMAIN clusters.clusters[c].items :
                    k < l => clusters.clusters[c].items[k] < clusters.clusters[c].items[l]
        /\ \A c, d \in DOMAIN clusters.clusters :
                (/\ c < d
                 /\ clusters.clusters[c].topic = NoTopic
                 /\ clusters.clusters[d].topic = NoTopic)
                    => clusters.clusters[c].items[1] < clusters.clusters[d].items[1]

\* A cluster whose members are not neighbours in the input, and two items
\* left alone, the first of them ahead of a member of the cluster.
C28_Witness ==
    /\ Returned(clusters)
    /\ \E c, d, f \in DOMAIN clusters.clusters :
        /\ clusters.clusters[c].topic # NoTopic
        /\ Len(clusters.clusters[c].items) = 2
        /\ clusters.clusters[c].items[2] > clusters.clusters[c].items[1] + 1
        /\ d < f
        /\ clusters.clusters[d].topic = NoTopic
        /\ clusters.clusters[f].topic = NoTopic
        /\ clusters.clusters[d].items[1] < clusters.clusters[c].items[2]

(***************************************************************************)
(* Properties of the topics of one output, checked under SpecTopics.       *)
(***************************************************************************)
\* C29 (as claimed): no two returned clusters of two or more items carry the
\* same topic.
C29_TopicsHeadOneCluster ==
    Returned(clusters) =>
        \A c, d \in DOMAIN clusters.clusters :
            (/\ c # d
             /\ Len(clusters.clusters[c].items) >= 2
             /\ Len(clusters.clusters[d].items) >= 2)
                => clusters.clusters[c].topic # clusters.clusters[d].topic

(***************************************************************************)
(* Properties of the final sort, checked under SpecLabels.                 *)
(***************************************************************************)
\* C14 (as claimed): for min_cluster_size >= 1, among returned clusters with
\* equal item counts, topic labels ascend in code-point order and a cluster
\* without topic comes after every cluster that has one, whatever the label.
C14_EqualSizesByTopicNoTopicLast ==
    (Returned(clusters) /\ min_cluster_size >= 1) =>
        \A c, d \in DOMAIN clusters.clusters :
            (c < d /\ Len(clusters.clusters[c].items) = Len(clusters.clusters[d].items)) =>
                /\ (clusters.clusters[c].topic # NoTopic /\ clusters.clusters[d].topic # NoTopic)
                        => ~StrLess(clusters.clusters[d].topic, clusters.clusters[c].topic)
                /\ ~(clusters.clusters[c].topic = NoTopic /\ clusters.clusters[d].topic # NoTopic)

(***************************************************************************)
(* Properties of extract_entities, checked under SpecExtract.              *)
(***************************************************************************)
\* The entries of the dictionary whose surface form is "ai".
AiEntries == {k \in KNOWN_ENTITIES : k.pattern = "ai"}

\* C15 (as claimed): short surface forms match at word boundaries only, so
\* extract_entities("aircraft") does not contain the label of the surface
\* form "ai" while extract_entities("I love AI") does contain it.
C15_AiOnlyAsAWord ==
    found.called =>
        /\ Join(text) = "aircraft" =>
                \A k \in AiEntries : k.canonical_name \notin found.entities
        /\ Join(text) = "I love AI" =>
                \E k \in AiEntries : k.canonical_name \in found.entities

(***************************************************************************)
(* Properties of normalize_item, checked under SpecNormalize, and of       *)
(* normalize_item within generate_html, checked under SpecItems.           *)
(***************************************************************************)
\* The text a title is made from: the text of the post, or of the first post
\* of the thread; empty when there is none.
TitleSource ==
    IF item_type = "x_post" THEN Get(item, "text", <<>>)
    ELSE IF Get(item, "posts", <<>>) = <<>> THEN <<>>
    ELSE Get(Get(item, "posts", <<>>)[1], "text", <<>>)

\* C18: for the kinds x_post and x_thread the title is the whole source text
\* when that has at most 100 characters, and otherwise its first 100
\* characters followed by '...'; the title is never longer than 103
\* characters; the text of a post is the whole source text and the text of a
\* thread begins with the whole text of its first post.
C18_TitleIsTextCutAtLimit ==
    (normalized.called /\ item_type \in {"x_post", "x_thread"}) =>
        LET title == normalized.value.title
        IN  /\ Len(TitleSource) <= TitleLimit => title = TitleSource
            /\ Len(TitleSource) > TitleLimit =>
                /\ Len(title) = TitleLimit + Len(Ellipsis)
                /\ \A k \in 1..TitleLimit : title[k] = TitleSource[k]
                /\ \A k \in (TitleLimit + 1)..Len(title) : title[k] = "."
            /\ Len(title) <= TitleLimit + Len(Ellipsis)
            /\ item_type = "x_post" => normalized.value.text = TitleSource
            /\ item_type = "x_thread" =>
                /\ Len(normalized.value.text) >= Len(TitleSource)
                /\ SubSeq(normalized.value.text, 1, Len(TitleSource)) = TitleSource

\* A post whose text is longer than the limit has been normalized: its title
\* is cut and its text is not.
C18_Witness ==
    /\ normalized.called
    /\ item_type = "x_post"
    /\ Len(TitleSource) > TitleLimit
    /\ Len(normalized.value.title) < Len(normalized.value.text) + Len(Ellipsis)
    /\ normalized.value.text = TitleSource

\* The kinds normalize_item knows.
RecognizedKinds == {"article", "x_post", "x_thread"}

\* C19: normalize_item returns None for a kind it does not know, and for each
\* kind it knows a dict of that type with all seven keys, whatever keys the
\* item lacks: the url is '#' when the item (or the thread's first post) has
\* none, and a thread without posts has an empty title and text.  The items
\* that generate_html passes to cluster_by_topic hold no None, and the
\* clusters are made of these items.
C19_NoneOnlyForUnknownKinds ==
    /\ normalized.called =>
        IF item_type \notin RecognizedKinds
        THEN normalized.value = NoItem
        ELSE /\ normalized.value # NoItem
             /\ DOMAIN normalized.value =
                    {"type", "title", "text", "url", "source", "entities", "original"}
             /\ normalized.value.type = item_type
             /\ normalized.value.original = item
             /\ (item_type # "x_thread" /\ "url" \notin DOMAIN item)
                    => normalized.value.url = "#"
             /\ (item_type = "x_thread" /\ Get(item, "posts", <<>>) = <<>>) =>
                    /\ normalized.value.title = <<>>
                    /\ normalized.value.text = <<>>
                    /\ normalized.value.url = "#"
             /\ (/\ item_type = "x_thread"
                 /\ Get(item, "posts", <<>>) # <<>>
                 /\ "url" \notin DOMAIN Get(item, "posts", <<>>)[1])
                    => normalized.value.url = "#"
    /\ Returned(page) =>
        /\ \A k \in DOMAIN page.all_items : page.all_items[k] # NoItem
        /\ \A c \in DOMAIN page.clusters :
                Range(page.clusters[c].items) \subseteq DOMAIN page.all_items

\* An item with keys has been normalized under a kind that normalize_item
\* does not know, and has come back as None.
C19_Witness ==
    /\ normalized.called
    /\ item_type \notin RecognizedKinds
    /\ item # EmptyDict
    /\ normalized.value = NoItem

\* The posts of the thread that is normalized.
ThreadPosts == Get(item, "posts", <<>>)

\* The text of the k-th post of the thread.
ThreadText(k) == Get(ThreadPosts[k], "text", <<>>)

\* Where the text of the k-th post begins in the text of the thread: after
\* the texts before it and one space for each of them.
RECURSIVE TextStart(_)
TextStart(k) == IF k = 1 THEN 1 ELSE TextStart(k - 1) + Len(ThreadText(k - 1)) + 1

\* C21: for the kind x_thread the text holds the text of every post, in the
\* order of the posts, with one space between two posts and nothing else;
\* the entities are those extract_entities finds in that text; the title and
\* the url are those of the thread made of the first post alone.
C21_ThreadTextJoinsEveryPost ==
    (normalized.called /\ item_type = "x_thread") =>
        LET body == normalized.value.text
            n == Len(ThreadPosts)
        IN  /\ n = 0 => body = <<>>
            /\ n > 0 => Len(body) = TextStart(n) + Len(ThreadText(n)) - 1
            /\ \A k \in 1..n :
                /\ SubSeq(body, TextStart(k), TextStart(k) + Len(ThreadText(k)) - 1)
                        = ThreadText(k)
                /\ k < n => body[TextStart(k + 1) - 1] = " "
            /\ normalized.value.entities = ExtractEntities(body)
            /\ n > 0 =>
                LET alone == NormalizeItem([posts |-> <<ThreadPosts[1]>>], "x_thread")
                IN  /\ normalized.value.title = alone.title
                    /\ normalized.value.url = alone.url
                    /\ normalized.value.title = TitleOf(ThreadText(1))
                    /\ normalized.value.url = Get(ThreadPosts[1], "url", "#")

\* A thread of two posts with different texts has been normalized: its text
\* is longer than both, its entities are more than those of the first post,
\* and its title is the text of the first post.
C21_Witness ==
    /\ normalized.called
    /\ item_type = "x_thread"
    /\ Len(ThreadPosts) = 2
    /\ ThreadText(1) # <<>>
    /\ ThreadText(2) # <<>>
    /\ ThreadText(1) # ThreadText(2)
    /\ Len(normalized.value.text) = Len(ThreadText(1)) + Len(ThreadText(2)) + 1
    /\ normalized.value.entities # ExtractEntities(ThreadText(1))
    /\ normalized.value.title = ThreadText(1)

(***************************************************************************)
(* Properties of generate_html, checked under SpecPage.                    *)
(***************************************************************************)
\* The posts that a normalized item stands for: the posts of a thread, the
\* post of an x_post item, none for an article.
PostsOf(entry) ==
    IF entry.type = "x_thread" THEN entry.original.posts
    ELSE IF entry.type = "x_post" THEN <<entry.original>>
    ELSE <<>>

\* How often the post d is passed in, and how often the items stand for it.
TimesPassed(d) == Cardinality({i \in DOMAIN x_posts : x_posts[i] = d})
TimesHeld(d) ==
    Cardinality({pl \in UNION {{<<k, j>> : j \in DOMAIN PostsOf(page.all_items[k])} :
                                    k \in DOMAIN page.all_items} :
                    PostsOf(page.all_items[pl[1]])[pl[2]] = d})

\* C30: in every returning call the items handed to cluster_by_topic are the
\* Techmeme articles, then the TechCrunch articles, then the items of
\* detect_threads in its order, each article as an item of its own, each
\* thread as one x_thread item of its posts and each other post as one x_post
\* item; every post passed in is held by the items as often as it is passed
\* in; and every item is at exactly one place of exactly one cluster.
C30_EveryInputInOneCluster ==
    Returned(page) =>
        LET all == page.all_items
            m == Len(techmeme_articles)
            n == Len(techcrunch_articles)
            x_items == XItems(x_posts).items
        IN  /\ Len(all) = m + n + Len(x_items)
            /\ \A k \in 1..m :
                /\ all[k].type = "article"
                /\ all[k].original = techmeme_articles[k]
            /\ \A k \in 1..n :
                /\ all[m + k].type = "article"
                /\ all[m + k].original = techcrunch_articles[k]
            /\ \A k \in DOMAIN x_items :
                IF x_items[k].is_thread
                THEN /\ all[m + n + k].type = "x_thread"
                     /\ all[m + n + k].original.posts =
                            [j \in DOMAIN x_items[k].posts |-> x_posts[x_items[k].posts[j]]]
                ELSE /\ all[m + n + k].type = "x_post"
                     /\ all[m + n + k].original = x_posts[x_items[k].posts[1]]
            /\ \A i \in DOMAIN x_posts : TimesHeld(x_posts[i]) = TimesPassed(x_posts[i])
            /\ \A k \in DOMAIN all : Cardinality(Places(page, k)) = 1
            /\ \A c \in DOMAIN page.clusters : Members(page, c) \subseteq DOMAIN all

\* An article of each list and two posts that form a thread have been
\* clustered: three items, two of them in one cluster.
C30_Witness ==
    /\ Returned(page)
    /\ Len(techmeme_articles) = 1
    /\ Len(techcrunch_articles) = 1
    /\ Len(x_posts) = 2
    /\ Len(page.all_items) = 3
    /\ page.all_items[3].type = "x_thread"
    /\ Len(page.all_items[3].original.posts) = 2
    /\ \E c \in DOMAIN page.clusters : Len(page.clusters[c].items) >= 2

(***************************************************************************)
(* Properties of detect_threads, checked under SpecThreads.                *)
(***************************************************************************)
\* Posts i and j are members of the same returned item.
SameItem(i, j) ==
    \E x \in DOMAIN threads.items : {i, j} \subseteq Range(threads.items[x].posts)

\* The positions of the posts of username u in ascending-time order.
AuthorOrder(u) ==
    SortAuthorPosts(posts, SelectSeq([i \in DOMAIN posts |-> i],
                                     LAMBDA i : posts[i].username = u))

\* The post at position i has a timestamp that parses.
Parseable(i) == DtOf(posts, i).kind # "none"

\* The distance in half minutes between the timestamps of posts i and j.
Distance(i, j) ==
    LET a == DtOf(posts, i).t
        b == DtOf(posts, j).t
    IN  IF a >= b THEN a - b ELSE b - a

\* C4: in every returning call, two posts of one author that are adjacent in
\* the author's ascending-time order and both have parseable timestamps are
\* in the same thread exactly if their timestamps lie at most
\* time_threshold_minutes apart (inclusive); the comparison is with the
\* previous post, not with the first post of the run.
C4_AdjacentPostsJoinIffWithinThreshold ==
    Returned(threads) =>
        \A u \in {posts[i].username : i \in DOMAIN posts} :
            LET order == AuthorOrder(u)
            IN  \A k \in 1..(Len(order) - 1) :
                    (Parseable(order[k]) /\ Parseable(order[k + 1])) =>
                        (SameItem(order[k], order[k + 1])
                            <=> Distance(order[k], order[k + 1]) <= 2 * time_threshold_minutes)

\* With the default threshold: a thread of three posts whose first and last
\* post lie more than the threshold apart, two posts exactly the threshold
\* apart, and a later post of the same author that stands alone.
C4_Witness ==
    /\ Returned(threads)
    /\ time_threshold_minutes = DefaultThresholdMinutes
    /\ \E x, y \in DOMAIN threads.items :
        /\ threads.items[x].is_thread
        /\ Len(threads.items[x].posts) = 3
        /\ Distance(threads.items[x].posts[1], threads.items[x].posts[3])
                > 2 * time_threshold_minutes
        /\ \E k \in 1..2 :
                Distance(threads.items[x].posts[k], threads.items[x].posts[k + 1])
                    = 2 * time_threshold_minutes
        /\ ~threads.items[y].is_thread
        /\ threads.items[y].username = threads.items[x].username
        /\ Parseable(threads.items[y].posts[1])

\* C16: in every returning call, a thread has at least 2 posts, all of the
\* author named by its username; an item that is no thread is one post, so a
\* run of one post is never a thread; the only post of an author is returned
\* as a post of its own.
C16_ThreadsHaveTwoPostsOfOneAuthor ==
    Returned(threads) =>
        /\ \A x \in DOMAIN threads.items :
            IF threads.items[x].is_thread
            THEN /\ Len(threads.items[x].posts) >= 2
                 /\ \A k \in DOMAIN threads.items[x].posts :
                        posts[threads.items[x].posts[k]].username = threads.items[x].username
            ELSE Len(threads.items[x].posts) = 1
        /\ \A i \in DOMAIN posts :
            (\A j \in DOMAIN posts : posts[j].username = posts[i].username => j = i) =>
                \E x \in DOMAIN threads.items :
                    /\ ~threads.items[x].is_thread
                    /\ threads.items[x].posts = <<i>>

\* One author has a thread and a later post that stands alone; the other
\* author has one post only.
C16_Witness ==
    /\ Returned(threads)
    /\ \E x, y, z \in DOMAIN threads.items :
        /\ threads.items[x].is_thread
        /\ ~threads.items[y].is_thread
        /\ threads.items[y].username = threads.items[x].username
        /\ ~threads.items[z].is_thread
        /\ threads.items[z].username # threads.items[x].username
        /\ \A j \in DOMAIN posts :
                posts[j].username = threads.items[z].username
                    => j = threads.items[z].posts[1]

\* C17: in every returning call, a post whose timestamp is missing or does
\* not parse is returned as a post of its own and is a member of no thread.
C17_UnparseablePostsStandAlone ==
    Returned(threads) =>
        \A i \in DOMAIN posts :
            ~Parseable(i) =>
                /\ \E x \in DOMAIN threads.items :
                    /\ ~threads.items[x].is_thread
                    /\ threads.items[x].posts = <<i>>
                /\ \A x \in DOMAIN threads.items :
                    threads.items[x].is_thread => i \notin Range(threads.items[x].posts)

\* An author with two posts without timestamp and two posts with timestamps
\* that have formed a thread.
C17_Witness ==
    /\ Returned(threads)
    /\ \E i, j \in DOMAIN posts :
        /\ i # j
        /\ posts[i].username = posts[j].username
        /\ ~Parseable(i) /\ ~Parseable(j)
        /\ \E x \in DOMAIN threads.items :
            /\ threads.items[x].is_thread
            /\ threads.items[x].username = posts[i].username

\* The timestamp under which a returned item was sorted: that of its first post.
FirstDt(entry) == SortKey(DtOf(posts, entry.posts[1]))

\* C20: in every returning call, the timestamps along the posts of a thread
\* never decrease, and the returned sequence is ordered, most recent first, by
\* the timestamp of each item's first post.
C20_ThreadPostsChronological ==
    Returned(threads) =>
        /\ \A x \in DOMAIN threads.items :
            threads.items[x].is_thread =>
                \A k, l \in DOMAIN threads.items[x].posts :
                    k < l => DtOf(posts, threads.items[x].posts[k]).t
                                <= DtOf(posts, threads.items[x].posts[l]).t
        /\ \A x, y \in DOMAIN threads.items :
            x < y => FirstDt(threads.items[x]).t >= FirstDt(threads.items[y]).t

\* A thread of three posts at three different times that were passed latest
\* first, returned behind a more recent item.
C20_Witness ==
    /\ Returned(threads)
    /\ \E x \in DOMAIN threads.items :
        /\ x > 1
        /\ threads.items[x].is_thread
        /\ Len(threads.items[x].posts) = 3
        /\ \A k \in 1..2 :
            /\ threads.items[x].posts[k] > threads.items[x].posts[k + 1]
            /\ DtOf(posts, threads.items[x].posts[k]).t
                    < DtOf(posts, threads.items[x].posts[k + 1]).t

\* The places (item, position) of the returned items at which post i appears.
PostPlaces(i) ==
    {pl \in UNION {{<<x, k>> : k \in DOMAIN threads.items[x].posts} :
                        x \in DOMAIN threads.items} :
        threads.items[pl[1]].posts[pl[2]] = i}

\* The number of posts in the first n returned items.
RECURSIVE PostsInItems(_)
PostsInItems(n) ==
    IF n = 0 THEN 0 ELSE PostsInItems(n - 1) + Len(threads.items[n].posts)

\* C25: in every returning call each input post, by position, is at exactly
\* one place of exactly one returned item, the items hold nothing but input
\* posts, and they hold as many posts as the input has.
C25_EachPostInExactlyOneItem ==
    Returned(threads) =>
        /\ \A i \in DOMAIN posts : Cardinality(PostPlaces(i)) = 1
        /\ \A x \in DOMAIN threads.items :
                Range(threads.items[x].posts) \subseteq DOMAIN posts
        /\ PostsInItems(Len(threads.items)) = Len(posts)

\* Posts of two authors have come back as a thread and as posts of their own,
\* one of them without a timestamp that parses.
C25_Witness ==
    /\ Returned(threads)
    /\ Len(posts) >= 3
    /\ \E i, j \in DOMAIN posts : posts[i].username # posts[j].username
    /\ \E i \in DOMAIN posts : ~Parseable(i)
    /\ \E x, y \in DOMAIN threads.items :
        /\ threads.items[x].is_thread
        /\ ~threads.items[y].is_thread
    /\ PostsInItems(Len(threads.items)) = Len(posts)


\* The starting timestamp of a returned item: that of its earliest post.
StartOf(entry) ==
    LET e == CHOOSE i \in Range(entry.posts) :
                \A j \in Range(entry.posts) : DtOf(posts, i).t <= DtOf(posts, j).t
    IN  DtOf(posts, e)

\* C5 (as claimed): the returned sequence is ordered by starting timestamp,
\* most recent first, and every item whose starting timestamp is missing or
\* unparseable comes after every item whose starting timestamp parses.
C5_MostRecentFirstMissingLast ==
    Returned(threads) =>
        \A x, y \in DOMAIN threads.items :
            LET a == StartOf(threads.items[x])
                b == StartOf(threads.items[y])
            IN  /\ (x < y /\ a.kind # "none" /\ b.kind # "none") => a.t >= b.t
                /\ (a.kind # "none" /\ b.kind = "none") => x < y

\* C8 (as claimed): the call never raises, whatever mix of timestamp forms
\* the posts carry.
C8_DetectNeverRaises ==
    threads.called => ~threads.raised

====
